---------------------------- MODULE Spec2Model ----------------------------
(***************************************************************************)
(* Crawl-and-index pipeline of the SCP frequency search service:           *)
(* link discovery (build_seed_links), the bounded concurrent crawler       *)
(* (crawl_pages / _task / fetch), the in-memory page cache, and the        *)
(* frequency ranking of /search.                                           *)
(*                                                                         *)
(* Strings are sequences of tokens.  A token is one character, except for  *)
(* the fixed pieces of a URL (the site origin, "scp-"), which are single   *)
(* tokens.  An Optional[str] is a sequence of length 0 (None) or 1.        *)
(***************************************************************************)
EXTENDS Integers, Sequences, FiniteSets, TLC

\* ------------------------------------------------------------------ bounds

\* Number of request handlers that run in one process lifetime (each may be
\* a /refresh or a /search, started at any time, so two handlers overlap or
\* follow one another).
MaxReqs == 2

\* The concurrency ceiling of crawl_pages.  utils.py sets CONCURRENCY = 8;
\* the model scales it down so that a crawl of the discovered links has more
\* URLs than slots.
CONCURRENCY == 2

\* Largest value of the limit parameter of /refresh and /search explored.
MaxLimit == 2

\* Longest page text of the ranking specification that is enumerated in
\* full.
MaxTextLen == 3

\* Longest query of the ranking specification that is enumerated in full.
MaxQueryLen == 7

\* Longest query of the snippet specification that is enumerated in full.
MaxSnippetQueryLen == 4

\* ------------------------------------------------------- program constants

\* search(): links[:250]
BOOTSTRAP_LIMIT == 250

\* search(): len(t) > 2
MIN_TERM_LEN == 2

\* search(): raw_score = 3 * phrase_hits + ...
PHRASE_WEIGHT == 3

\* ----------------------------------------------------------------- strings

Reqs == 1..MaxReqs

Range(s) == {s[i] : i \in 1..Len(s)}

\* F(v) for the value of v: a local variable, assigned once and then read.
With(v, F(_)) == CHOOSE y \in {F(x) : x \in {v}} : TRUE

Take(s, n) == SubSeq(s, 1, IF n < Len(s) THEN n ELSE Len(s))

Digits == {"0", "1", "2", "3", "4", "5", "7"}

\* Code-point order of the tokens that occur in article URLs.
TokOrd(t) ==
    CASE t = " " -> 32
      [] t = "-" -> 45
      [] t = "/" -> 47
      [] t = "0" -> 48
      [] t = "1" -> 49
      [] t = "2" -> 50
      [] t = "3" -> 51
      [] t = "4" -> 52
      [] t = "5" -> 53
      [] t = "7" -> 55
      [] OTHER   -> 104

\* Python's str "<": lexicographic, a proper prefix sorts first.
RECURSIVE StrLess(_, _)
StrLess(s, t) ==
    IF t = <<>> THEN FALSE
    ELSE IF s = <<>> THEN TRUE
    ELSE IF Head(s) = Head(t) THEN StrLess(Tail(s), Tail(t))
    ELSE TokOrd(Head(s)) < TokOrd(Head(t))

\* sorted(set(xs)) for a set of strings.
RECURSIVE SortedSet(_)
SortedSet(S) ==
    IF S = {} THEN <<>>
    ELSE LET m == CHOOSE x \in S : \A y \in S \ {x} : StrLess(x, y)
         IN  <<m>> \o SortedSet(S \ {m})

\* str.strip() on the blank token.
RECURSIVE LStrip(_)
LStrip(s) == IF s # <<>> /\ Head(s) = " " THEN LStrip(Tail(s)) ELSE s

RECURSIVE RStrip(_)
RStrip(s) ==
    IF s # <<>> /\ s[Len(s)] = " " THEN RStrip(SubSeq(s, 1, Len(s) - 1)) ELSE s

Strip(s) == LStrip(RStrip(s))

\* ---------------------------------------------------------------- the site

ORIGIN == "https://scp-wiki.wikidot.com"

HTTP_ORIGIN == "http://scp-wiki.wikidot.com"

\* _SCP_URL_PATTERN without its end anchor: whatever follows three digits
\* is accepted.
SCP_URL_PATTERN_Prefix(href) ==
    /\ Len(href) >= 6
    /\ href[1] = ORIGIN
    /\ href[2] = "/"
    /\ href[3] = "scp-"
    /\ \A i \in 4..6 : href[i] \in Digits

\* _SCP_URL_PATTERN: ^https://scp-wiki\.wikidot\.com/scp-\d{3,4}$
SCP_URL_PATTERN(href) ==
    /\ Len(href) \in 6..7
    /\ href[1] = ORIGIN
    /\ href[2] = "/"
    /\ href[3] = "scp-"
    /\ \A i \in 4..Len(href) : href[i] \in Digits

Rel(ds) == <<"/", "scp-">> \o ds

Abs(ds) == <<ORIGIN>> \o Rel(ds)

\* SERIES_INDEX_URLS
SERIES_INDEX_URLS ==
    << <<ORIGIN, "/", "scp-series">>,
       <<ORIGIN, "/", "scp-series-2">>,
       <<ORIGIN, "/", "scp-series-3">> >>

NumIndex == Len(SERIES_INDEX_URLS)

\* What the site serves for each index page: the href attributes of its
\* anchors, in document order.  They cover relative and absolute article
\* links, the same article twice, surrounding blanks, and hrefs the pattern
\* rejects (too few / too many digits, trailing slash, other scheme, a
\* non-article page).
SeriesHtml(i) ==
    CASE i = 1 -> << Rel(<<"1", "7", "3">>),
                     Abs(<<"1", "7", "3">>),
                     <<" ">> \o Rel(<<"0", "0", "2">>) \o <<" ">>,
                     <<"/", "scp-series-2">>,
                     Rel(<<"1", "2">>) >>
      [] i = 2 -> << Rel(<<"1", "7", "3", "0">>),
                     Rel(<<"1", "7", "3">>),
                     Rel(<<"1", "2", "3", "4", "5">>),
                     Rel(<<"1", "7", "3">>) \o <<"/">>,
                     <<HTTP_ORIGIN>> \o Rel(<<"0", "0", "2">>) >>
      [] OTHER -> << Abs(<<"0", "0", "2">>),
                     <<"/">> >>

\* extract_links_from_series, the loop body: strip, resolve a relative href
\* against the origin.
ResolveHref(raw) ==
    LET href == Strip(raw)
    IN  IF href # <<>> /\ Head(href) = "/" THEN <<ORIGIN>> \o href ELSE href

RECURSIVE CollectLinks(_)
CollectLinks(anchors) ==
    IF anchors = <<>> THEN <<>>
    ELSE LET href == ResolveHref(Head(anchors))
         IN  (IF SCP_URL_PATTERN(href) THEN <<href>> ELSE <<>>)
                 \o CollectLinks(Tail(anchors))

\* extract_links_from_series(html) -> sorted(set(links))
extract_links_from_series(html) == SortedSet(Range(CollectLinks(html)))

\* ExtendLinks with break in place of continue: the first index page that
\* failed ends the loop.
RECURSIVE ExtendLinks_Abort(_)
ExtendLinks_Abort(series_htmls) ==
    IF series_htmls = <<>> \/ Head(series_htmls) = <<>> THEN <<>>
    ELSE extract_links_from_series(Head(series_htmls)[1])
             \o ExtendLinks_Abort(Tail(series_htmls))

\* build_seed_links, lines 80-88: the loop over series_htmls (each an
\* Optional html) and the final sorted(set(links)).
RECURSIVE ExtendLinks(_)
ExtendLinks(series_htmls) ==
    IF series_htmls = <<>> THEN <<>>
    ELSE (IF Head(series_htmls) = <<>>
          THEN <<>>
          ELSE extract_links_from_series(Head(series_htmls)[1]))
             \o ExtendLinks(Tail(series_htmls))

SeedLinks(series_htmls) == SortedSet(Range(ExtendLinks(series_htmls)))

\* ------------------------------------------------------------ article pages

\* An article document as far as extract_main_text reads it: the text of
\* its <title> (absent: <<>>), the text of its content container
\* (#page-content or div.content; absent: <<>>), and the text of the whole
\* document.
HtmlWithContainer ==
    [ title |-> << <<"S", "C", "P">> >>,
      main  |-> << <<"a", "b", "c", " ", "A", "b", "c">> >>,
      doc   |-> <<"S", "C", "P", " ", "a", "b", "c", " ", "A", "b", "c">> ]

HtmlBare ==
    [ title |-> <<>>,
      main  |-> <<>>,
      doc   |-> <<"a", "b", "c", "d">> ]

\* A document without any text: markup only.
HtmlNoText ==
    [ title |-> <<>>,
      main  |-> <<>>,
      doc   |-> <<>> ]

\* HtmlBare after an edit of the article.
HtmlRevised ==
    [ title |-> <<>>,
      main  |-> <<>>,
      doc   |-> <<"a", "b", "c", "d", " ", "c", "d">> ]

\* What the site serves for an article url: scp-173 has the content
\* container, scp-1730 has no text at all, the others have text but no
\* container.
ArticleHtml(u) ==
    IF u = Abs(<<"1", "7", "3">>) THEN HtmlWithContainer
    ELSE IF u = Abs(<<"1", "7", "3", "0">>) THEN HtmlNoText
    ELSE HtmlBare

\* What the site serves for an article url once the article has been
\* edited: scp-002 is edited while the service runs, the others are not.
RevisedHtml(u) ==
    IF u = Abs(<<"0", "0", "2">>) THEN {HtmlRevised} ELSE {}

\* extract_main_text(html) -> (title, text)
extract_main_text(html) ==
    [ title |-> IF html.title # <<>> THEN html.title[1] ELSE <<>>,
      text  |-> IF html.main # <<>> THEN html.main[1] ELSE html.doc ]

\* Page(url=u, title=title, text=text)
Page(u, html) ==
    LET tt == extract_main_text(html)
    IN  [url |-> u, title |-> tt.title, text |-> tt.text]

\* An HTTP response: status code and body (<<>> is the empty body).  The
\* body of an error response is a document too: an index-shaped one with a
\* link to the front page, an article-shaped one with an error text.
IndexErrorBody == << <<"/">> >>

ArticleErrorBody ==
    [ title |-> << <<"e", "r", "r">> >>,
      main  |-> <<>>,
      doc   |-> <<"e", "r", "r">> ]

IndexResponses(i) ==
    { [status_code |-> 200, text |-> <<SeriesHtml(i)>>],
      [status_code |-> 200, text |-> <<>>],
      [status_code |-> 503, text |-> <<IndexErrorBody>>] }

ArticleResponses(u) ==
    { [status_code |-> 200, text |-> <<ArticleHtml(u)>>],
      [status_code |-> 200, text |-> <<>>],
      [status_code |-> 404, text |-> <<ArticleErrorBody>>] }
        \cup { [status_code |-> 200, text |-> <<html>>] : html \in RevisedHtml(u) }

\* fetch, lines 46-47 and 50: what a response that arrived turns into.
FetchReturn(r) == IF r.status_code = 200 /\ r.text # <<>> THEN r.text ELSE <<>>

\* ------------------------------------------------------------ the dict model

\* A Python dict keyed by url is a sequence of Pages with distinct urls, in
\* insertion order.
Keys(cache) == {cache[i].url : i \in 1..Len(cache)}

\* DictSet as a cache of one entry: the new page evicts what is there.
DictSet_Evict(cache, page) == <<page>>

\* page_cache[u] = page: a new key is appended, an existing key keeps its
\* position and takes the new value.
DictSet(cache, page) ==
    IF page.url \in Keys(cache)
    THEN [i \in 1..Len(cache) |->
             IF cache[i].url = page.url THEN page ELSE cache[i]]
    ELSE Append(cache, page)

\* page_cache.get(u) as an Optional.
DictGet(cache, u) ==
    IF u \in Keys(cache)
    THEN <<cache[CHOOSE i \in 1..Len(cache) : cache[i].url = u]>>
    ELSE <<>>

\* NotCached without its filter: every url is fetched again.
NotCached_NoFilter(urls, cache) == urls

\* [u for u in urls if u not in page_cache]
RECURSIVE NotCached(_, _)
NotCached(urls, cache) ==
    IF urls = <<>> THEN <<>>
    ELSE (IF Head(urls) \in Keys(cache) THEN <<>> ELSE <<Head(urls)>>)
             \o NotCached(Tail(urls), cache)

\* ------------------------------------------------------------------ scoring

\* str.lower(), one character at a time.
LowerTok(c) ==
    CASE c = "A" -> "a"
      [] c = "B" -> "b"
      [] c = "C" -> "c"
      [] c = "D" -> "d"
      [] c = "S" -> "s"
      [] c = "P" -> "p"
      [] OTHER   -> c

Lower(s) == [i \in 1..Len(s) |-> LowerTok(s[i])]

\* _word_re = [A-Za-z0-9']+
WordChars ==
    {"a", "b", "c", "d", "s", "p", "A", "B", "C", "D", "S", "P", "'"}
        \cup Digits

\* _word_re.findall(s): the maximal runs of word characters, left to right.
\* cur is the run being read.
RECURSIVE FindAllWords(_, _)
FindAllWords(s, cur) ==
    IF s = <<>> THEN (IF cur = <<>> THEN <<>> ELSE <<cur>>)
    ELSE IF Head(s) \in WordChars
         THEN FindAllWords(Tail(s), Append(cur, Head(s)))
         ELSE (IF cur = <<>> THEN <<>> ELSE <<cur>>)
                  \o FindAllWords(Tail(s), <<>>)

\* tokenize(s)
tokenize(s) ==
    LET ws == FindAllWords(s, <<>>)
    IN  [i \in 1..Len(ws) |-> Lower(ws[i])]

\* str.count(sub) from 1-based position i: occurrences are counted left to
\* right and the scan resumes after the end of each one (they do not
\* overlap).  The empty string occurs len(s) + 1 times.
RECURSIVE CountFrom(_, _, _)
CountFrom(s, sub, i) ==
    IF i + Len(sub) - 1 > Len(s) THEN 0
    ELSE IF SubSeq(s, i, i + Len(sub) - 1) = sub
         THEN 1 + CountFrom(s, sub, i + Len(sub))
         ELSE CountFrom(s, sub, i + 1)

StrCount(s, sub) ==
    With(s, LAMBDA str : With(sub, LAMBDA x :
        IF x = <<>> THEN Len(str) + 1 ELSE CountFrom(str, x, 1)))

\* str.find(sub): 0-based index of the first occurrence, or -1.
StrFind(s, sub) ==
    With(s, LAMBDA str : With(sub, LAMBDA x :
        LET hits == {i \in 1..(Len(str) - Len(x) + 1) :
                         SubSeq(str, i, i + Len(x) - 1) = x}
        IN  IF hits = {} THEN -1
            ELSE (CHOOSE i \in hits : \A j \in hits : i <= j) - 1))

\* count_phrase(text, phrase)
count_phrase(text, phrase) == StrCount(Lower(text), Lower(phrase))

\* count_terms(text, terms): the loop, counts being the dict built so far.
RECURSIVE CountTermsLoop(_, _, _)
CountTermsLoop(low, terms, counts) ==
    IF terms = <<>> THEN counts
    ELSE LET t == Head(terms)
         IN  IF t = <<>>
             THEN CountTermsLoop(low, Tail(terms), counts)
             ELSE CountTermsLoop(low, Tail(terms),
                      [x \in (DOMAIN counts) \cup {t} |->
                          IF x = t THEN StrCount(low, Lower(t)) ELSE counts[x]])

EmptyDict == [x \in {} |-> 0]

count_terms(text, terms) == CountTermsLoop(Lower(text), terms, EmptyDict)

\* sum(d.values()): the values at the keys ks of the dict d are added.
RECURSIVE SumOver(_, _)
SumOver(d, ks) ==
    IF ks = {} THEN 0
    ELSE LET k == CHOOSE x \in ks : TRUE
         IN  d[k] + SumOver(d, ks \ {k})

SumValues(d) == SumOver(d, DOMAIN d)

\* [t for t in tokenize(query) if len(t) > 2]
RECURSIVE LongTerms(_)
LongTerms(ts) ==
    IF ts = <<>> THEN <<>>
    ELSE (IF Len(Head(ts)) > MIN_TERM_LEN THEN <<Head(ts)>> ELSE <<>>)
             \o LongTerms(Tail(ts))

\* make_snippet's default max_len
MAX_LEN == 240

\* FirstTermIndex that goes on after a term was found: the last term that
\* occurs wins.
RECURSIVE FirstTermIndex_Last(_, _)
FirstTermIndex_Last(low, parts) ==
    IF parts = <<>> THEN -1
    ELSE With(FirstTermIndex_Last(low, Tail(parts)), LAMBDA later :
             IF later # -1 THEN later ELSE StrFind(low, Head(parts)))

\* FirstTermIndex that tries the first term only.
FirstTermIndex_HeadOnly(low, parts) ==
    IF parts = <<>> THEN -1 ELSE StrFind(low, Head(parts))

\* make_snippet, lines 79-83: the index of the first term that occurs.
RECURSIVE FirstTermIndex(_, _)
FirstTermIndex(low, parts) ==
    IF parts = <<>> THEN -1
    ELSE LET idx == StrFind(low, Head(parts))
         IN  IF idx # -1 THEN idx ELSE FirstTermIndex(low, Tail(parts))

Max(a, b) == IF a > b THEN a ELSE b

Min(a, b) == IF a < b THEN a ELSE b

\* text[start:end].replace("\n", " ")
ReplaceNewlines(s) == [i \in 1..Len(s) |-> IF s[i] = "\n" THEN " " ELSE s[i]]

\* make_snippet(text, query, max_len) as an Optional string.
MakeSnippet(text, query, max_len) ==
    With(Lower(text), LAMBDA low :
    With(StrFind(low, Lower(query)), LAMBDA idx0 :
    With(IF idx0 = -1
         THEN FirstTermIndex(low, LongTerms(tokenize(query)))
         ELSE idx0, LAMBDA idx :
    With(Max(0, idx - (max_len \div 3)), LAMBDA start :
    With(Min(Len(text), idx + Len(query) + (max_len \div 3)), LAMBDA end :
    With(ReplaceNewlines(SubSeq(text, start + 1, end)), LAMBDA snippet :
        IF idx = -1 THEN <<>>
        ELSE << snippet \o (IF end < Len(text) THEN <<"...">> ELSE <<>>) >>))))))

\* make_snippet(text, query), max_len left at its default.
make_snippet(text, query) == MakeSnippet(text, query, MAX_LEN)

\* RawScore without the weight of the phrase.
RawScore_Unweighted(phrase_hits, term_hits) ==
    phrase_hits + SumValues(term_hits)

\* search, line 293
RawScore(phrase_hits, term_hits) ==
    PHRASE_WEIGHT * phrase_hits + SumValues(term_hits)

\* Skipped that lets a page of score 0 through.
Skipped_ZeroKept(raw_score) == raw_score < 0

\* search, lines 294-295: the page is left out of the results.
Skipped(raw_score) == raw_score <= 0

\* search, lines 290-305: the results list before sorting.
RECURSIVE ScorePages(_, _, _)
ScorePages(cache, query, q_terms) ==
    IF cache = <<>> THEN <<>>
    ELSE With(Head(cache), LAMBDA page :
         With(count_phrase(page.text, query), LAMBDA phrase_hits :
         With(count_terms(page.text, q_terms), LAMBDA term_hits :
         With(RawScore(phrase_hits, term_hits), LAMBDA raw_score :
             IF Skipped(raw_score) THEN <<>>
             ELSE << [ url         |-> page.url,
                       title       |-> page.title,
                       score       |-> raw_score,
                       phrase_hits |-> phrase_hits,
                       term_hits   |-> term_hits,
                       snippet     |-> make_snippet(page.text, query) ] >>))))
             \o ScorePages(Tail(cache), query, q_terms)

\* list.sort(key=lambda r: r.score, reverse=True): stable, so results of
\* equal score keep their order.  Insertion of r into a sorted list, behind
\* every element whose score is not smaller.
\* InsertByScore that puts a result in front of those of equal score.
RECURSIVE InsertByScore_Unstable(_, _)
InsertByScore_Unstable(sorted, r) ==
    IF sorted = <<>> THEN <<r>>
    ELSE IF Head(sorted).score > r.score
         THEN <<Head(sorted)>> \o InsertByScore_Unstable(Tail(sorted), r)
         ELSE <<r>> \o sorted

\* Insertion of r into the sorted list, as the stable sort places it.
RECURSIVE InsertByScore(_, _)
InsertByScore(sorted, r) ==
    IF sorted = <<>> THEN <<r>>
    ELSE IF Head(sorted).score >= r.score
         THEN <<Head(sorted)>> \o InsertByScore(Tail(sorted), r)
         ELSE <<r>> \o sorted

RECURSIVE SortByScore(_, _)
SortByScore(results, sorted) ==
    IF results = <<>> THEN sorted
    ELSE SortByScore(Tail(results), InsertByScore(sorted, Head(results)))

\* search, lines 287-308
Rank(cache, query, limit) ==
    With(LongTerms(tokenize(query)), LAMBDA q_terms :
        With(ScorePages(cache, query, q_terms), LAMBDA results :
            Take(SortByScore(results, <<>>), limit)))

\* ------------------------------------------------------------------- state

VARIABLES
    _page_cache,         \* the global dict url -> Page
    _links_cache,        \* the global list of seed links
    _links_initialized,  \* the global flag
    kind,                \* per handler: the endpoint it serves
    pc,                  \* per handler: where it is suspended
    series,              \* build_seed_links: the gathered fetches of the index pages
    links,               \* the handler's links (build_seed_links' return value)
    urls,                \* crawl_pages' argument
    to_get,              \* crawl_pages' to_get
    task,                \* crawl_pages: the gathered _task coroutines
    sem,                 \* crawl_pages: free slots of its Semaphore
    out,                 \* the handler's response
    audio_dir,           \* the urls whose wav file exists in static/audio
    hist                 \* per handler: what it has done so far (history)

vars ==
    << _page_cache, _links_cache, _links_initialized, kind, pc, series, links,
       urls, to_get, task, sem, out, audio_dir, hist >>

globals == << _page_cache, _links_cache, _links_initialized, audio_dir >>

\* Queries of the /search requests of the server model.
Queries == { <<"a", "b", "c">>, <<"c", "d">> }

Limits == 1..MaxLimit

Returned == {r \in Reqs : pc[r] = "done"}

\* A coroutine inside fetch(): st is "wait" (a _task not yet past its
\* semaphore), "get" (client.get in flight), "sleep" (the politeness delay,
\* holding a response it has not looked at yet) or "done"; ret is what
\* fetch returned.
Coroutine(st, ret) == [st |-> st, ret |-> ret]

\* The history of a handler:
\*   done_before     the handlers that had returned when it was called
\*   discovered      it has fetched index pages
\*   crawl_after     the handlers that had returned when it called crawl_pages
\*   cached_at_call  the cached urls when it called crawl_pages
\*   fetched         the urls its crawl_pages call has issued a GET for
\*   inserted        the urls its crawl_pages call has stored
\*   failed          the urls whose fetch returned None to its crawl_pages call
\*   asked           the query and the limit it ranked the cache for, or
\*                   the query and the budget it made a snippet for (an
\*                   Optional, kept by the ranking and the snippet
\*                   specifications)
NoHistory ==
    [ done_before |-> {}, discovered |-> FALSE, crawl_after |-> {},
      cached_at_call |-> {}, fetched |-> {}, inserted |-> {}, failed |-> {},
      asked |-> <<>> ]

Init ==
    /\ _page_cache = <<>>
    /\ _links_cache = <<>>
    /\ _links_initialized = FALSE
    /\ kind = [r \in Reqs |-> "none"]
    /\ pc = [r \in Reqs |-> "idle"]
    /\ series = [r \in Reqs |-> <<>>]
    /\ links = [r \in Reqs |-> <<>>]
    /\ urls = [r \in Reqs |-> <<>>]
    /\ to_get = [r \in Reqs |-> <<>>]
    /\ task = [r \in Reqs |-> <<>>]
    /\ sem = [r \in Reqs |-> 0]
    /\ out = [r \in Reqs |-> <<>>]
    /\ audio_dir = {}
    /\ hist = [r \in Reqs |-> NoHistory]

\* ------------------------------------------------------------ the handlers

\* refresh_index, line 273
RefreshResponse(lks, cache) ==
    [ ok |-> TRUE, seed_links |-> Len(lks), pages_cached |-> Len(cache) ]

\* Handler r, serving endpoint k with the links lks, returns once
\* crawl_pages has returned: its response is computed and its locals are
\* gone.  The query and the result limit of a /search are read here for the
\* first time.
Return(r, k, lks, cache) ==
    /\ pc' = [pc EXCEPT ![r] = "done"]
    /\ IF k = "refresh"
       THEN out' = [out EXCEPT ![r] = <<RefreshResponse(lks, cache)>>]
       ELSE \E q \in Queries, limit \in Limits :
                \E results \in {Rank(cache, q, limit)} :
                    out' = [out EXCEPT ![r] = <<results>>]
    /\ to_get' = [to_get EXCEPT ![r] = <<>>]
    /\ task' = [task EXCEPT ![r] = <<>>]
    /\ sem' = [sem EXCEPT ![r] = 0]

\* crawl_pages(lks[:limit], _page_cache), lines 94-98 and the creation of
\* the tasks of line 109, called by handler r with the links lks.  With
\* nothing to get it returns at once and the handler responds.  h is the
\* handler's history up to the call.
CallCrawl(r, k, lks, limit, h) ==
    \E us \in {Take(lks, limit)} : \E tg \in {NotCached(us, _page_cache)} :
        /\ links' = [links EXCEPT ![r] = lks]
        /\ urls' = [urls EXCEPT ![r] = us]
        /\ hist' = [hist EXCEPT ![r] =
                       [h EXCEPT !.crawl_after = Returned,
                                 !.cached_at_call = Keys(_page_cache)]]
        /\ IF tg = <<>>
           THEN Return(r, k, lks, _page_cache)
           ELSE /\ pc' = [pc EXCEPT ![r] = "crawl"]
                /\ to_get' = [to_get EXCEPT ![r] = tg]
                /\ task' = [task EXCEPT ![r] =
                               [i \in 1..Len(tg) |-> Coroutine("wait", <<>>)]]
                /\ sem' = [sem EXCEPT ![r] = CONCURRENCY]
                /\ UNCHANGED out

\* The limit a handler passes to crawl_pages: /refresh its limit parameter,
\* /search the bootstrap limit.
CrawlLimits(k) == IF k = "refresh" THEN Limits ELSE {BOOTSTRAP_LIMIT}

\* build_seed_links, line 74: the memoized links are returned.
Memoized(links_cache, links_init) == links_init /\ links_cache # <<>>

\* build_seed_links(_links_cache, _links_initialized), lines 74-78, called
\* by handler r: either the memoized links are returned and the handler goes
\* on to crawl_pages, or the fetches of the index pages are gathered.
CallBuildSeedLinks(r, k, h) ==
    IF Memoized(_links_cache, _links_initialized)
    THEN /\ \E limit \in CrawlLimits(k) :
                CallCrawl(r, k, _links_cache, limit, h)
         /\ UNCHANGED series
    ELSE /\ pc' = [pc EXCEPT ![r] = "links"]
         /\ series' = [series EXCEPT ![r] =
                          [i \in 1..NumIndex |-> Coroutine("get", <<>>)]]
         /\ hist' = [hist EXCEPT ![r] = [h EXCEPT !.discovered = TRUE]]
         /\ UNCHANGED << links, urls, to_get, task, sem, out >>

\* POST /refresh arrives (lines 269-271).
Refresh(r) ==
    /\ pc[r] = "idle"
    /\ kind' = [kind EXCEPT ![r] = "refresh"]
    /\ CallBuildSeedLinks(r, "refresh",
                          [NoHistory EXCEPT !.done_before = Returned])
    /\ UNCHANGED globals

\* GET /search arrives (lines 276-285): the bootstrap when the links are not
\* initialized, else the ranking at once.
Search(r) ==
    /\ pc[r] = "idle"
    /\ kind' = [kind EXCEPT ![r] = "search"]
    /\ LET h == [NoHistory EXCEPT !.done_before = Returned]
       IN  IF ~_links_initialized
           THEN CallBuildSeedLinks(r, "search", h)
           ELSE /\ Return(r, "search", <<>>, _page_cache)
                /\ hist' = [hist EXCEPT ![r] = h]
                /\ UNCHANGED << series, links, urls >>
    /\ UNCHANGED globals

\* ------------------------------------------------------------------- fetch

\* fetch, lines 44-45: client.get returned a response; the politeness
\* delay follows.
AfterGet == Coroutine("sleep", <<>>)

\* fetch, lines 48-49: client.get raised (timeout, transport error);
\* fetch returns None from the except clause.
AfterRaise == Coroutine("done", <<>>)

\* fetch, lines 45-47, 50: asyncio.sleep is over, the response resp is
\* examined and fetch returns.
AfterSleep(resp) == Coroutine("done", FetchReturn(resp))

\* GatherDone that waits for the first result only.
GatherDone_Any(cs) == \E i \in 1..Len(cs) : cs[i].st = "done"

\* asyncio.gather(...) has every result.
GatherDone(cs) == \A i \in 1..Len(cs) : cs[i].st = "done"

\* -------------------------------------------------------- build_seed_links

IndexResponds(r, i) ==
    /\ pc[r] = "links"
    /\ series[r][i].st = "get"
    /\ series' = [series EXCEPT ![r][i] = AfterGet]
    /\ UNCHANGED << globals, kind, pc, links, urls, to_get, task, sem, out,
                    hist >>

IndexRaises(r, i) ==
    /\ pc[r] = "links"
    /\ series[r][i].st = "get"
    /\ series' = [series EXCEPT ![r][i] = AfterRaise]
    /\ UNCHANGED << globals, kind, pc, links, urls, to_get, task, sem, out,
                    hist >>

IndexSlept(r, i) ==
    /\ pc[r] = "links"
    /\ series[r][i].st = "sleep"
    /\ \E resp \in IndexResponses(i) :
           series' = [series EXCEPT ![r][i] = AfterSleep(resp)]
    /\ UNCHANGED << globals, kind, pc, links, urls, to_get, task, sem, out,
                    hist >>

\* build_seed_links, lines 78-90, resumes with series_htmls and returns;
\* links_cache and links_initialized of lines 88-89 are its own local
\* names, so the globals keep their values.  The handler goes on to
\* crawl_pages (refresh_index line 272, search line 285).
LinksReturn(r) ==
    /\ pc[r] = "links"
    /\ GatherDone(series[r])
    /\ \E lks \in {SeedLinks([i \in 1..NumIndex |-> series[r][i].ret])} :
       \E limit \in CrawlLimits(kind[r]) :
           CallCrawl(r, kind[r], lks, limit, hist[r])
    /\ series' = [series EXCEPT ![r] = <<>>]
    /\ UNCHANGED << globals, kind >>

\* ------------------------------------------------------------- crawl_pages

\* SemFree off by one: a slot is handed out when none is left.
SemFree_OffByOne(n) == n >= 0

\* Semaphore.acquire does not block.
SemFree(n) == n > 0

\* StoreResult without the check of line 104: a failed fetch stores an
\* empty page.
StoreResult_Always(cache, u, ret) ==
    DictSet(cache, IF ret = <<>>
                   THEN [url |-> u, title |-> <<>>, text |-> <<>>]
                   ELSE Page(u, ret[1]))

\* _task, lines 104-107: the cache after the task whose fetch returned ret.
StoreResult(cache, u, ret) ==
    IF ret = <<>> THEN cache ELSE DictSet(cache, Page(u, ret[1]))

\* _task, lines 101-103: the task gets a slot and issues its GET.  Tasks
\* start in the order gather created them and a Semaphore wakes its waiters
\* first come first served.
Acquire(r, i) ==
    /\ pc[r] = "crawl"
    /\ task[r][i].st = "wait"
    /\ \A j \in 1..(i - 1) : task[r][j].st # "wait"
    /\ SemFree(sem[r])
    /\ task' = [task EXCEPT ![r][i] = Coroutine("get", <<>>)]
    /\ sem' = [sem EXCEPT ![r] = @ - 1]
    /\ hist' = [hist EXCEPT ![r].fetched = @ \cup {to_get[r][i]}]
    /\ UNCHANGED << globals, kind, pc, series, links, urls, to_get, out >>

TaskResponds(r, i) ==
    /\ pc[r] = "crawl"
    /\ task[r][i].st = "get"
    /\ task' = [task EXCEPT ![r][i] = AfterGet]
    /\ UNCHANGED << globals, kind, pc, series, links, urls, to_get, sem, out,
                    hist >>

\* The rest of _task after fetch returned c.ret: the client is closed, the
\* page is stored, the slot is released.
TaskEnds(r, i, c) ==
    LET u == to_get[r][i]
        cache == StoreResult(_page_cache, u, c.ret)
    IN  /\ task' = [task EXCEPT ![r][i] = c]
        /\ _page_cache' = cache
        /\ sem' = [sem EXCEPT ![r] = @ + 1]
        /\ hist' = [hist EXCEPT ![r] =
                       IF c.ret = <<>>
                       THEN [@ EXCEPT !.failed = @ \cup {u}]
                       ELSE [@ EXCEPT !.inserted = @ \cup {u}]]
        /\ UNCHANGED << _links_cache, _links_initialized, audio_dir, kind,
                        pc, series, links, urls, to_get, out >>

TaskRaises(r, i) ==
    /\ pc[r] = "crawl"
    /\ task[r][i].st = "get"
    /\ TaskEnds(r, i, AfterRaise)

TaskSlept(r, i) ==
    /\ pc[r] = "crawl"
    /\ task[r][i].st = "sleep"
    /\ \E resp \in ArticleResponses(to_get[r][i]) :
           TaskEnds(r, i, AfterSleep(resp))

\* crawl_pages, line 109: the gather is over, crawl_pages returns and the
\* handler responds.
CrawlReturn(r) ==
    /\ pc[r] = "crawl"
    /\ GatherDone(task[r])
    /\ Return(r, kind[r], links[r], _page_cache)
    /\ UNCHANGED << globals, kind, series, links, urls, hist >>

\* -------------------------------------------------------------- the reader

\* The urls of the /ui/article, /tts and /audio requests: an article, the
\* same article with a trailing slash, an index page.
ReaderUrls ==
    { Abs(<<"1", "7", "3">>),
      Abs(<<"1", "7", "3">>) \o <<"/">>,
      SERIES_INDEX_URLS[1] }

\* A reader handler returns with the status code status.  It has no crawl
\* of its own.
ReaderReturn(r, k, status) ==
    /\ pc[r] = "idle"
    /\ kind' = [kind EXCEPT ![r] = k]
    /\ pc' = [pc EXCEPT ![r] = "done"]
    /\ out' = [out EXCEPT ![r] = <<[status_code |-> status]>>]
    /\ hist' = [hist EXCEPT ![r] = [NoHistory EXCEPT !.done_before = Returned]]
    /\ UNCHANGED << _page_cache, _links_cache, _links_initialized, series,
                    links, urls, to_get, task, sem >>

\* _fetch_html followed by _extract_scp_body_from_html, on a cache miss.
\* _fetch_html raises on a transport error or an error status;
\* _extract_scp_body_from_html imports BeautifulSoup in its own body (line
\* 222), which makes the name local, so its first use at line 214 raises.
\* Either way no body text comes back; caught is the status of a handler
\* that catches the failure of _fetch_html.
FetchOnDemandStatus(caught) == {caught, 500}

\* GET /ui/article (lines 156-195): the cached page, else a fetch on demand.
Article(r) ==
    \E url \in ReaderUrls :
        LET page == DictGet(_page_cache, url)
        IN  /\ \E status \in (IF page = <<>> THEN FetchOnDemandStatus(502)
                              ELSE IF page[1].text = <<>> THEN {404}
                              ELSE {200}) :
                   ReaderReturn(r, "article", status)
            /\ UNCHANGED audio_dir

\* _synthesize_tts_to_file writes the wav file of url, or raises.
Synthesize(r, k, url) ==
    \/ /\ audio_dir' = audio_dir \cup {url}
       /\ ReaderReturn(r, k, 200)
    \/ /\ UNCHANGED audio_dir
       /\ ReaderReturn(r, k, 500)

\* GET /tts (lines 375-399): the cached text, else a fetch on demand.
Tts(r) ==
    \E url \in ReaderUrls :
        LET page == DictGet(_page_cache, url)
        IN  IF page # <<>> /\ page[1].text # <<>>
            THEN Synthesize(r, "tts", url)
            ELSE /\ ReaderReturn(r, "tts", 500)
                 /\ UNCHANGED audio_dir

\* GET /audio (lines 341-370), with ?url= (the id is derived from it) or
\* with the id of url alone: the wav file if it exists, else, given the url,
\* the text of _get_body_text_for_url is synthesized.
Audio(r) ==
    \E url \in ReaderUrls, with_url \in BOOLEAN :
        LET page == DictGet(_page_cache, url)
        IN  IF url \in audio_dir
            THEN /\ ReaderReturn(r, "audio", 200)
                 /\ UNCHANGED audio_dir
            ELSE IF ~with_url
            THEN /\ ReaderReturn(r, "audio", 404)
                 /\ UNCHANGED audio_dir
            ELSE IF page # <<>> /\ page[1].text # <<>>
            THEN Synthesize(r, "audio", url)
            ELSE /\ ReaderReturn(r, "audio", 500)
                 /\ UNCHANGED audio_dir

\* --------------------------------------------------------------- the server

Next ==
    \/ \E r \in Reqs : Refresh(r)
    \/ \E r \in Reqs : Search(r)
    \/ \E r \in Reqs : Article(r)
    \/ \E r \in Reqs : Tts(r)
    \/ \E r \in Reqs : Audio(r)
    \/ \E r \in Reqs : \E i \in 1..Len(series[r]) : IndexResponds(r, i)
    \/ \E r \in Reqs : \E i \in 1..Len(series[r]) : IndexRaises(r, i)
    \/ \E r \in Reqs : \E i \in 1..Len(series[r]) : IndexSlept(r, i)
    \/ \E r \in Reqs : LinksReturn(r)
    \/ \E r \in Reqs : \E i \in 1..Len(task[r]) : Acquire(r, i)
    \/ \E r \in Reqs : \E i \in 1..Len(task[r]) : TaskResponds(r, i)
    \/ \E r \in Reqs : \E i \in 1..Len(task[r]) : TaskRaises(r, i)
    \/ \E r \in Reqs : \E i \in 1..Len(task[r]) : TaskSlept(r, i)
    \/ \E r \in Reqs : CrawlReturn(r)

Spec == Init /\ [][Next]_vars

\* The steps of handler r that the event loop, the network and the timers
\* take on their own: every one but the arrival of a request.
Progress(r) ==
    \/ \E i \in 1..Len(series[r]) : IndexResponds(r, i)
    \/ \E i \in 1..Len(series[r]) : IndexRaises(r, i)
    \/ \E i \in 1..Len(series[r]) : IndexSlept(r, i)
    \/ LinksReturn(r)
    \/ \E i \in 1..Len(task[r]) : Acquire(r, i)
    \/ \E i \in 1..Len(task[r]) : TaskResponds(r, i)
    \/ \E i \in 1..Len(task[r]) : TaskRaises(r, i)
    \/ \E i \in 1..Len(task[r]) : TaskSlept(r, i)
    \/ CrawlReturn(r)

\* The steps of handler r's crawl_pages call.
CrawlProgress(r) ==
    \/ \E i \in 1..Len(task[r]) : Acquire(r, i)
    \/ \E i \in 1..Len(task[r]) : TaskResponds(r, i)
    \/ \E i \in 1..Len(task[r]) : TaskRaises(r, i)
    \/ \E i \in 1..Len(task[r]) : TaskSlept(r, i)
    \/ CrawlReturn(r)

\* A request arrives.
Arrival(r) ==
    \/ Refresh(r)
    \/ Search(r)
    \/ Article(r)
    \/ Tts(r)
    \/ Audio(r)

\* No handler is running.
Quiet == \A r \in Reqs : pc[r] \in {"idle", "done"}

\* The server when its requests do not overlap: a request arrives only
\* when no handler is running.
SeqNext ==
    \/ Quiet /\ \E r \in Reqs : Arrival(r)
    \/ \E r \in Reqs : Progress(r)

\* The server of requests that do not overlap, when every GET of a crawl
\* ends (client.get returns or raises within TIMEOUT), every sleep ends and
\* the event loop runs every ready coroutine of a crawl.
FairSpec ==
    Init /\ [][SeqNext]_vars /\ \A r \in Reqs : WF_vars(CrawlProgress(r))

\* -------------------------------------------------------------- the ranking

\* The sequences over the alphabet of length at most n.
SeqsUpTo(alphabet, n) == UNION {[1..k -> alphabet] : k \in 0..n}

\* Page texts: every text of at most MaxTextLen characters over a letter in
\* both cases and the blank, and longer ones in which a term or the phrase
\* occurs several times.
ScoreTexts ==
    SeqsUpTo({"a", "A", " "}, MaxTextLen)
        \cup { <<"a", "a", "a", " ", "a", "a", "a">>,
               <<"a", "a", "a", "a", "a", "a">>,
               <<"A", "a", "a", "a", " ", "a", "a", "a", " ", "a", "a">> }

\* Page texts of the caches of several pages: two of them score the same
\* for the query "aaa", one scores more, one has no letter run of length 3.
ScoreTiedTexts ==
    { <<"a", "a", "a">>,
      <<"a", "a", "a", "a">>,
      <<"A", "A", "A", " ", "a", "a", "a">>,
      <<"a">> }

\* The page of url u with the text t.
ScorePage(u, t) == [url |-> u, title |-> <<>>, text |-> t]

\* Caches of the ranking specification: empty, one page of any text, or
\* two or three pages (in insertion order).
ScoreCaches ==
    {<<>>}
        \cup { <<ScorePage(Abs(<<"1", "7", "3">>), t)>> : t \in ScoreTexts }
        \cup { << ScorePage(Abs(<<"0", "0", "2">>), t1),
                  ScorePage(Abs(<<"1", "7", "3">>), t2) >> :
                   t1 \in ScoreTiedTexts, t2 \in ScoreTiedTexts }
        \cup { << ScorePage(Abs(<<"0", "0", "2">>), t1),
                  ScorePage(Abs(<<"1", "7", "3">>), t2),
                  ScorePage(Abs(<<"1", "7", "3", "0">>), t3) >> :
                   t1 \in ScoreTiedTexts, t2 \in ScoreTiedTexts,
                   t3 \in ScoreTiedTexts }

\* Queries: every query of 2 to MaxQueryLen characters over a letter and
\* the blank (search requires min_length=2), and some with a term that does
\* not occur, an upper-case letter, a short term.
ScoreQueries ==
    { q \in SeqsUpTo({"a", " "}, MaxQueryLen) : Len(q) >= 2 }
        \cup { <<"a", "a", "a", " ", "a", "a", "a", "a">>,
               <<"A", "A", "a">>,
               <<"a", "a", "a", " ", "b", "b", "b">>,
               <<"a", "a", "a", " ", "a", "a", "a", " ", "b", "b", "b">>,
               <<"b", "b", "b">>,
               <<"b", "b", "b", " ", "a", "a", "a">>,
               <<"a", "a", " ", "a", "a", "a", "a", "a", "a">> }

\* Any cache the crawler may have left.
ScoreInit ==
    /\ _page_cache \in ScoreCaches
    /\ _links_cache = <<>>
    /\ _links_initialized = FALSE
    /\ kind = [r \in Reqs |-> "none"]
    /\ pc = [r \in Reqs |-> "idle"]
    /\ series = [r \in Reqs |-> <<>>]
    /\ links = [r \in Reqs |-> <<>>]
    /\ urls = [r \in Reqs |-> <<>>]
    /\ to_get = [r \in Reqs |-> <<>>]
    /\ task = [r \in Reqs |-> <<>>]
    /\ sem = [r \in Reqs |-> 0]
    /\ out = [r \in Reqs |-> <<>>]
    /\ audio_dir = {}
    /\ hist = [r \in Reqs |-> NoHistory]

\* search, lines 287-308, on its own: handler 1 ranks the cache for a query
\* and a limit and responds.
RankQuery ==
    /\ pc[1] = "idle"
    /\ \E q \in ScoreQueries, limit \in Limits :
           /\ out' = [out EXCEPT ![1] = <<Rank(_page_cache, q, limit)>>]
           /\ hist' = [hist EXCEPT
                          ![1].asked = <<[query |-> q, limit |-> limit]>>]
    /\ kind' = [kind EXCEPT ![1] = "search"]
    /\ pc' = [pc EXCEPT ![1] = "done"]
    /\ UNCHANGED << globals, series, links, urls, to_get, task, sem >>

ScoreSpec == ScoreInit /\ [][RankQuery]_vars

\* ------------------------------------------------------------- the snippet

\* Page texts: every text of at most MaxTextLen + 1 characters over two
\* letters and the blank, and longer ones with several terms, upper case
\* and a newline.
SnippetTexts ==
    SeqsUpTo({"a", "b", " "}, MaxTextLen + 1)
        \cup { <<"b", "b", "b", " ", "a", "a", "a">>,
               <<"b", "b", "b", " ", "A", "a", "a", "\n", "b", "a", "b">>,
               <<"a", "b", "\n", "b", "b", "b", "\n", "a", "b">> }

\* Queries: every query of 1 to MaxSnippetQueryLen characters over two
\* letters and the blank, and longer ones of several terms.
SnippetQueries ==
    { q \in SeqsUpTo({"a", "b", " "}, MaxSnippetQueryLen) : Len(q) >= 1 }
        \cup { <<"a", "a", "a", " ", "b", "b", "b">>,
               <<"a", "b", "a", " ", "b", "a", "b">>,
               <<"B", "B", "B", " ", "a", "b">> }

\* The budgets max_len: small ones, with which the window is shorter than
\* the texts, and the default.
SnippetBudgets == {3, 7, MAX_LEN}

\* Any page a crawl may have cached.
SnippetInit ==
    /\ _page_cache \in { <<ScorePage(Abs(<<"1", "7", "3">>), t)>> :
                             t \in SnippetTexts }
    /\ _links_cache = <<>>
    /\ _links_initialized = FALSE
    /\ kind = [r \in Reqs |-> "none"]
    /\ pc = [r \in Reqs |-> "idle"]
    /\ series = [r \in Reqs |-> <<>>]
    /\ links = [r \in Reqs |-> <<>>]
    /\ urls = [r \in Reqs |-> <<>>]
    /\ to_get = [r \in Reqs |-> <<>>]
    /\ task = [r \in Reqs |-> <<>>]
    /\ sem = [r \in Reqs |-> 0]
    /\ out = [r \in Reqs |-> <<>>]
    /\ audio_dir = {}
    /\ hist = [r \in Reqs |-> NoHistory]

\* make_snippet, lines 73-89, on its own: handler 1 makes the snippet of
\* the cached page for a query and a budget.
SnipQuery ==
    /\ pc[1] = "idle"
    /\ \E q \in SnippetQueries, max_len \in SnippetBudgets :
           /\ out' = [out EXCEPT
                         ![1] = <<MakeSnippet(_page_cache[1].text, q, max_len)>>]
           /\ hist' = [hist EXCEPT
                          ![1].asked = <<[query |-> q, max_len |-> max_len]>>]
    /\ kind' = [kind EXCEPT ![1] = "search"]
    /\ pc' = [pc EXCEPT ![1] = "done"]
    /\ UNCHANGED << globals, series, links, urls, to_get, task, sem >>

SnippetSpec == SnippetInit /\ [][SnipQuery]_vars

\* ------------------------------------------------------------------ claims

Crawlers == {r \in Reqs : kind[r] \in {"refresh", "search"}}

Readers == {r \in Reqs : kind[r] \in {"article", "tts", "audio"}}

\* The tasks of handler r's crawl_pages call that hold a slot: their fetch
\* has started and has not finished (the politeness delay included).
InFlight(r) == {i \in 1..Len(task[r]) : task[r][i].st \in {"get", "sleep"}}

\* C1: within one crawl_pages call, the number of tasks between the start
\* and the end of their fetch never exceeds the ceiling CONCURRENCY, for
\* every number of urls and every interleaving of the tasks' steps.
C1_InFlightBounded ==
    \A r \in Reqs : Cardinality(InFlight(r)) <= CONCURRENCY

\* C1's case: a call with more urls than slots, the ceiling reached and a
\* task held back.
C1_Witness ==
    \E r \in Reqs :
        /\ Cardinality(InFlight(r)) = CONCURRENCY
        /\ \E i \in 1..Len(task[r]) : task[r][i].st = "wait"

\* C2: a crawl_pages call made after an earlier call has returned issues no
\* fetch for a url the earlier call stored; if every url of its list is
\* cached when it is made, it issues no fetch at all and stores nothing.
C2_NoRefetch ==
    \A r2 \in Reqs : \A r1 \in hist[r2].crawl_after :
        /\ hist[r2].fetched \cap hist[r1].inserted = {}
        /\ Range(urls[r2]) \subseteq hist[r2].cached_at_call
               => hist[r2].fetched = {} /\ hist[r2].inserted = {}

\* C2's case: the second list overlaps what the first call stored, and the
\* second call has fetched the rest and returned.
C2_Witness ==
    \E r2 \in Reqs : \E r1 \in hist[r2].crawl_after :
        /\ hist[r1].inserted \cap Range(urls[r2]) # {}
        /\ hist[r2].fetched # {}
        /\ pc[r2] = "done"

\* C5: no step removes a key from the page cache, whatever the requests
\* (refresh, search, article, tts, audio) and their interleaving; so the
\* cached urls of a later state are a superset of those of an earlier one.
C5_CacheMonotone ==
    [][Keys(_page_cache) \subseteq Keys(_page_cache')]_vars

\* C5's case: pages are cached and a reader request has been served from
\* the cache.
C5_Witness ==
    /\ Len(_page_cache) >= 2
    /\ \E r \in Readers : pc[r] = "done" /\ out[r][1].status_code = 200

\* C3: once a build_seed_links call has produced a non-empty link set,
\* every later call (one made by a handler called after that one returned)
\* returns that same set and fetches no index page.
C3_Memoized ==
    \A r \in Crawlers : \A r1 \in hist[r].done_before \cap Crawlers :
        hist[r1].discovered /\ links[r1] # <<>>
            => /\ ~hist[r].discovered
               /\ pc[r] \in {"crawl", "done"} => links[r] = links[r1]

\* C4: the implicit bootstrap is triggered by at most one query: a /search
\* called after an earlier /search has bootstrapped (and found links) and
\* returned goes straight to the ranking, without discovering links or
\* crawling.
C4_BootstrapOnce ==
    \A r \in Reqs : \A r1 \in hist[r].done_before :
        kind[r1] = "search" /\ hist[r1].discovered /\ links[r1] # <<>>
            => ~(kind[r] = "search" /\ hist[r].discovered)

\* C6 as claimed: a url whose fetch failed during a crawl_pages call is
\* absent from the cache when that call returns.
C6_FailedAbsentAtReturn ==
    [][\A r \in Reqs :
           pc[r] = "crawl" /\ pc'[r] = "done"
               => hist[r].failed \cap Keys(_page_cache') = {}]_vars

\* The urls stored by the crawl_pages calls of the handlers other than r.
StoredByOthers(r) == UNION {hist[o].inserted : o \in Reqs \ {r}}

\* C6, amended: a url whose fetch failed during a crawl_pages call is not
\* stored by that call (it is in the cache only if another call stored it);
\* the handler still returns its response; and a later crawl_pages call
\* whose list contains the url, made while it is not cached, fetches it
\* again.
C6_FailedNotStored ==
    \A r \in Crawlers :
        /\ hist[r].failed \cap Keys(_page_cache) \subseteq StoredByOthers(r)
        /\ hist[r].failed \cap hist[r].inserted = {}
        /\ pc[r] = "done" => out[r] # <<>>
        /\ \A r1 \in hist[r].crawl_after :
               \A u \in (hist[r1].failed \cap Range(urls[r]))
                            \ hist[r].cached_at_call :
                   /\ pc[r] = "crawl" => u \in Range(to_get[r])
                   /\ pc[r] = "done" => u \in hist[r].fetched

\* C6's case: a fetch of a call that has returned failed, and a later call
\* has fetched the url again.
C6_Witness ==
    \E r \in Reqs : \E r1 \in hist[r].crawl_after :
        hist[r1].failed \cap hist[r].fetched # {}

\* The article links of the index pages ok: every href of their anchors,
\* resolved, that matches the article url pattern.
ArticleLinksOf(ok) ==
    { h \in UNION { {ResolveHref(a) : a \in Range(SeriesHtml(i))} : i \in ok } :
          SCP_URL_PATTERN(h) }

\* lks is the sorted list, without duplicates, of the set S.
IsSortedListOf(lks, S) ==
    /\ Range(lks) = S
    /\ \A j \in 1..(Len(lks) - 1) : StrLess(lks[j], lks[j + 1])

\* C8: whatever subset of the index pages fails, build_seed_links returns
\* exactly the sorted list, without duplicates, of the article links of the
\* index pages that were fetched (the empty list if all fail).
C8_PartialDiscovery ==
    [][\A r \in Reqs :
           pc[r] = "links" /\ pc'[r] # "links"
               => IsSortedListOf(links'[r],
                      ArticleLinksOf({i \in 1..NumIndex :
                                         series[r][i].ret # <<>>}))]_vars

\* C8's case: build_seed_links has returned the links of the second index
\* page alone (the first and the third failed).
C8_Witness ==
    \E r \in Reqs :
        /\ hist[r].discovered
        /\ pc[r] \in {"crawl", "done"}
        /\ links[r] = << Abs(<<"1", "7", "3">>), Abs(<<"1", "7", "3", "0">>) >>

\* C9: after every fetch attempt, the one that times out or fails in
\* transport included, the politeness delay comes before fetch is over and
\* the slot is released: no fetch goes from its GET to its end without the
\* delay.
C9_DelayAfterEveryAttempt ==
    [][\A r \in Reqs :
           /\ \A i \in 1..Len(task[r]) :
                  task[r][i].st = "get" /\ i <= Len(task'[r])
                      => task'[r][i].st \in {"get", "sleep"}
           /\ \A i \in 1..Len(series[r]) :
                  series[r][i].st = "get" /\ i <= Len(series'[r])
                      => series'[r][i].st \in {"get", "sleep"}]_vars

\* C7: crawl_pages returns only when every task it dispatched is over, so
\* at its return each url of to_get has been stored or has failed and none
\* of its fetches is in flight; and, every fetch attempt coming to an end,
\* the call does return.
C7_Join ==
    /\ [][\A r \in Reqs :
              pc[r] = "crawl" /\ pc'[r] = "done"
                  => \A i \in 1..Len(task[r]) :
                         /\ task[r][i].st = "done"
                         /\ to_get[r][i] \in hist[r].inserted \cup hist[r].failed
                         /\ to_get[r][i] \in hist[r].inserted
                                => to_get[r][i] \in Keys(_page_cache)]_vars
    /\ \A r \in Reqs : (pc[r] = "crawl") ~> (pc[r] = "done")

\* C7's case: a call of three urls has returned, some stored, some failed.
C7_Witness ==
    \E r \in Reqs :
        /\ pc[r] = "done"
        /\ Len(urls[r]) = 3
        /\ hist[r].inserted # {}
        /\ hist[r].failed # {}

\* The results handler 1 has responded with after ranking the cache for a
\* query.
Ranked ==
    IF hist[1].asked # <<>> THEN Range(out[1][1]) ELSE {}

\* C10: the score of every search result is exactly 3 * phrase_hits plus
\* the sum of the values of the term_hits of that same result, whatever the
\* cached page and the query, with zero and non-zero hits and with
\* repeated terms.
C10_ScoreFormula ==
    \A res \in Ranked :
        res.score = 3 * res.phrase_hits + SumValues(res.term_hits)

\* C10's case: a result for a query whose terms repeat (term_hits has fewer
\* keys than the query has terms), in which one term occurs several times
\* and another does not occur.
C10_Witness ==
    \E res \in Ranked :
        /\ Cardinality(DOMAIN res.term_hits)
               < Len(LongTerms(tokenize(hist[1].asked[1].query)))
        /\ \E t \in DOMAIN res.term_hits : res.term_hits[t] = 0
        /\ \E t \in DOMAIN res.term_hits : res.term_hits[t] > 1

\* The query handler 1 ranked the cache for.
AskedQuery == hist[1].asked[1].query

\* The limit handler 1 ranked the cache for.
AskedLimit == hist[1].asked[1].limit

\* sub occurs in s at the 1-based position i.
OccursAt(s, sub, i) ==
    /\ i + Len(sub) - 1 <= Len(s)
    /\ \A j \in 1..Len(sub) : s[i + j - 1] = sub[j]

\* sub occurs in s.
Occurs(s, sub) == \E i \in 1..(Len(s) + 1) : OccursAt(s, sub, i)

\* The text, in lower case, matches the query: it contains the full query
\* or one of its terms of more than two characters.
Matches(text, query) ==
    \/ Occurs(Lower(text), Lower(query))
    \/ \E t \in Range(LongTerms(tokenize(query))) : Occurs(Lower(text), t)

\* C11: search never returns a result whose score is <= 0: a page that
\* contains neither the full query nor any of its qualifying terms is not
\* in the output, for every cache, query and limit.
C11_PositiveScores ==
    \A res \in Ranked :
        /\ res.score > 0
        /\ Matches(DictGet(_page_cache, res.url)[1].text, AskedQuery)

\* C11's case: of two cached pages one matches the query and is returned,
\* the other does not and is left out although the limit has room for it.
C11_Witness ==
    /\ hist[1].asked # <<>>
    /\ Len(_page_cache) = 2
    /\ AskedLimit = 2
    /\ Len(out[1][1]) = 1
    /\ \E i \in 1..2 : ~Matches(_page_cache[i].text, AskedQuery)

\* The score of the cached page i for the asked query.
ScoreOf(i) ==
    PHRASE_WEIGHT * count_phrase(_page_cache[i].text, AskedQuery)
        + SumValues(count_terms(_page_cache[i].text,
                                LongTerms(tokenize(AskedQuery))))

\* The cached pages of positive score.
Positive == {i \in 1..Len(_page_cache) : ScoreOf(i) > 0}

\* The place of the cached page i among those of positive score, sorted by
\* non-increasing score, pages of equal score in cache order.
PlaceOf(i) ==
    1 + Cardinality({j \in Positive :
                        \/ ScoreOf(j) > ScoreOf(i)
                        \/ ScoreOf(j) = ScoreOf(i) /\ j < i})

\* C12: the output of search is exactly the first min(limit, k) of the k
\* pages of positive score, sorted by non-increasing score, pages of equal
\* score in cache (insertion) order; so it has at most limit elements.
C12_SortedTopK ==
    hist[1].asked # <<>> =>
        /\ Len(out[1][1]) = Min(AskedLimit, Cardinality(Positive))
        /\ \A i \in Positive :
               PlaceOf(i) <= AskedLimit
                   => /\ out[1][1][PlaceOf(i)].url = _page_cache[i].url
                      /\ out[1][1][PlaceOf(i)].score = ScoreOf(i)

\* C12's case: three pages of positive score, the limit cuts the output to
\* two, and two pages of equal score are in the output or at the cut.
C12_Witness ==
    /\ hist[1].asked # <<>>
    /\ Cardinality(Positive) = 3
    /\ Len(out[1][1]) = 2
    /\ ScoreOf(1) < ScoreOf(3)
    /\ \E i \in Positive, j \in Positive : i < j /\ ScoreOf(i) = ScoreOf(j)

\* The positions of text at which the term t occurs, letter case apart.
PositionsOf(text, t) ==
    {i \in 1..Len(text) : OccursAt(Lower(text), Lower(t), i)}

\* C13: term_hits[T] of a result is the number of positions of the page
\* text at which the term T occurs as a case-insensitive substring,
\* overlapping and adjacent occurrences included.
C13_TermHitsArePositions ==
    \A res \in Ranked : \A t \in DOMAIN res.term_hits :
        res.term_hits[t]
            = Cardinality(PositionsOf(DictGet(_page_cache, res.url)[1].text, t))

\* u is the url of an article: the origin, "/scp-" and three or four digits,
\* nothing else.
IsArticleUrl(u) ==
    \E n \in {3, 4} :
        /\ Len(u) = 3 + n
        /\ SubSeq(u, 1, 3) = <<ORIGIN, "/", "scp-">>
        /\ \A d \in 1..n : SubSeq(u, 3 + d, 3 + d) \in {<<x>> : x \in Digits}

\* C14: every key of the page cache (the url of the Page stored under it)
\* is an article url, no two entries share a key, and so none is another
\* one's url with a trailing slash or a query string; after any sequence
\* of refresh, search, article, tts and audio requests.
C14_CanonicalKeys ==
    \A i \in 1..Len(_page_cache) :
        /\ IsArticleUrl(_page_cache[i].url)
        /\ \A j \in 1..Len(_page_cache) :
               j # i =>
                   /\ _page_cache[j].url # _page_cache[i].url
                   /\ _page_cache[j].url # _page_cache[i].url \o <<"/">>
                   /\ Len(_page_cache[j].url) > Len(_page_cache[i].url)
                          => Take(_page_cache[j].url, Len(_page_cache[i].url))
                                 # _page_cache[i].url
                             \/ _page_cache[j].url[Len(_page_cache[i].url) + 1]
                                    \in Digits

\* C14's case: scp-173 is cached, then a /ui/article request misses the
\* cache, so its url is not the article's (a trailing slash, an index
\* page); three pages are cached afterwards.
C14_Witness ==
    /\ Len(_page_cache) = 3
    /\ \E r \in Reqs : \E c \in hist[r].done_before :
           /\ Abs(<<"1", "7", "3">>) \in hist[c].inserted
           /\ kind[r] = "article"
           /\ pc[r] = "done"
           /\ out[r][1].status_code = 502

\* The text, the query and the budget handler 1 made a snippet for.
SnippetText == _page_cache[1].text

SnippetQuery == hist[1].asked[1].query

SnippetBudget == hist[1].asked[1].max_len

\* The 1-based position of the first occurrence of sub in s.
FirstPos(s, sub) ==
    CHOOSE i \in 1..(Len(s) + 1) :
        /\ OccursAt(s, sub, i)
        /\ \A j \in 1..(i - 1) : ~OccursAt(s, sub, j)

\* The first term, in tokenized order, that occurs in the text.
FirstFoundTerm(low, parts) ==
    parts[CHOOSE k \in 1..Len(parts) :
              /\ Occurs(low, parts[k])
              /\ \A j \in 1..(k - 1) : ~Occurs(low, parts[j])]

\* The 0-based index the window is anchored at, for a text that matches:
\* the first occurrence of the full query, else that of the first term
\* found.
AnchorOf(text, query) ==
    IF Occurs(Lower(text), Lower(query))
    THEN FirstPos(Lower(text), Lower(query)) - 1
    ELSE FirstPos(Lower(text),
                  FirstFoundTerm(Lower(text), LongTerms(tokenize(query)))) - 1

\* The bounds of the window anchored at idx, lines 86-87.
WindowStart(idx, max_len) == Max(0, idx - (max_len \div 3))

WindowEnd(text, query, idx, max_len) ==
    Min(Len(text), idx + Len(query) + (max_len \div 3))

\* The snippet whose window is anchored at idx, lines 86-89.
SnippetAt(text, query, idx, max_len) ==
    ReplaceNewlines(SubSeq(text, WindowStart(idx, max_len) + 1,
                           WindowEnd(text, query, idx, max_len)))
        \o (IF WindowEnd(text, query, idx, max_len) < Len(text)
            THEN <<"...">> ELSE <<>>)

\* C15: make_snippet returns an absent snippet if and only if the text
\* contains neither the full query, case-insensitively, nor any query term
\* of more than two characters; otherwise the window is anchored at the
\* first occurrence of the full query or, when the full query is absent, at
\* the first occurrence of the first term, in tokenized order, that occurs
\* in the text.
C15_SnippetAnchor ==
    hist[1].asked # <<>> =>
        /\ (out[1][1] = <<>>) <=> ~Matches(SnippetText, SnippetQuery)
        /\ Matches(SnippetText, SnippetQuery) =>
               out[1][1] =
                   << SnippetAt(SnippetText, SnippetQuery,
                                AnchorOf(SnippetText, SnippetQuery),
                                SnippetBudget) >>

\* The full query is absent, its first term of more than two characters is
\* absent too, a later term is found, and the window starts inside the
\* text.
C15_Witness ==
    /\ hist[1].asked # <<>>
    /\ out[1][1] # <<>>
    /\ ~Occurs(Lower(SnippetText), Lower(SnippetQuery))
    /\ Len(LongTerms(tokenize(SnippetQuery))) >= 2
    /\ ~Occurs(Lower(SnippetText), LongTerms(tokenize(SnippetQuery))[1])
    /\ WindowStart(AnchorOf(SnippetText, SnippetQuery), SnippetBudget) > 0

\* The window of the snippet made, before the ellipsis marker.
SnippetWindow ==
    IF out[1][1][1] # <<>> /\ out[1][1][1][Len(out[1][1][1])] = "..."
    THEN SubSeq(out[1][1][1], 1, Len(out[1][1][1]) - 1)
    ELSE out[1][1][1]

\* C16: for every text and query for which a snippet is produced, the
\* window extracted, before the ellipsis marker, is no longer than the
\* budget max_len, for queries of any length.
C16_WindowWithinBudget ==
    (hist[1].asked # <<>> /\ out[1][1] # <<>>) =>
        Len(SnippetWindow) <= SnippetBudget

\* The tasks of handler r's crawl_pages call whose GET is on the wire.
Requesting(r) == {i \in 1..Len(task[r]) : task[r][i].st = "get"}

\* The article fetches on the wire, of all crawl_pages calls together.
ArticleFetches == UNION { {<<r, i>> : i \in Requesting(r)} : r \in Reqs }

\* C17: process-wide, the number of fetches in flight never exceeds the
\* ceiling CONCURRENCY, for every interleaving of concurrently handled
\* requests.  Only the article fetches are counted here: the index-page
\* fetches of link discovery, which take no slot at all, would only add to
\* the number.
C17_ProcessWideCeiling == Cardinality(ArticleFetches) <= CONCURRENCY

\* Task i of handler r gets its slot and issues its GET in this step.
Issues(r, i) ==
    /\ pc[r] = "crawl"
    /\ i \in 1..Len(task[r])
    /\ Len(task'[r]) = Len(task[r])
    /\ task[r][i].st = "wait"
    /\ task'[r][i].st = "get"

\* C18: at the moment an article fetch is issued, the fetched url is not
\* in the page cache, for every interleaving, two crawl_pages calls with
\* overlapping url lists that run concurrently included.
C18_NoFetchOfCached ==
    [][\A r \in Reqs : \A i \in 1..Len(task[r]) :
           Issues(r, i) => to_get[r][i] \notin Keys(_page_cache)]_vars

\* C19: once the page cache holds an entry for a url, no later step
\* replaces that entry with a different Page value.
C19_PagesImmutable ==
    [][\A u \in Keys(_page_cache) :
           DictGet(_page_cache', u) = DictGet(_page_cache, u)]_vars

\* C20: crawl_pages never inserts a Page whose extracted text is empty: in
\* every reachable state every cached Page has a non-empty text.
C20_NoEmptyText ==
    \A i \in 1..Len(_page_cache) : _page_cache[i].text # <<>>

\* C21: every result returned by search carries a snippet, and whenever
\* the score of a cached page is > 0 for the query (phrase_hits > 0 or some
\* term_hits value > 0), make_snippet for that page and query returns a
\* string, whether the limit lets the page into the output or not.
C21_ResultsHaveSnippets ==
    hist[1].asked # <<>> =>
        /\ \A res \in Ranked : res.snippet # <<>>
        /\ \A i \in 1..Len(_page_cache) :
               ScoreOf(i) > 0 =>
                   make_snippet(_page_cache[i].text, AskedQuery) # <<>>

\* C21's case: a result whose page contains neither the full query nor the
\* first qualifying term of the query: its score comes from a later term
\* alone, and it is that term the snippet is found with.
C21_Witness ==
    /\ hist[1].asked # <<>>
    /\ \E res \in Ranked :
           /\ res.phrase_hits = 0
           /\ Len(LongTerms(tokenize(AskedQuery))) >= 2
           /\ res.term_hits[LongTerms(tokenize(AskedQuery))[1]] = 0
           /\ res.snippet # <<>>


=============================================================================
